---- MODULE Spec2Model ----
(***************************************************************************)
(* Model of src/performance_monitor.py: PerformanceMonitor (three sliding  *)
(* windows, frame timer, rate-limited reporter, CSV log sink) and the      *)
(* TrackerWithMonitoring decorator.                                        *)
(*                                                                         *)
(* Spec and SpecSkew run whole calls one after another; SpecConc runs the  *)
(* monitor's methods in two threads, one step per access to shared data.   *)
(*                                                                         *)
(* Time is counted in whole seconds of time.time(); every call happens at  *)
(* an instant no earlier than the call before it.                          *)
(* Floating-point quotients are kept exact as fractions <<num, den>>.      *)
(***************************************************************************)
EXTENDS Integers, Sequences, FiniteSets, TLC

VARIABLES
  clock,               \* the instant of the latest call (time.time(), in s)
  enabled,             \* the process-wide monitoring flag
  allocated,           \* the three deques exist
  frame_times,         \* deque(maxlen=window_size) of frame intervals (s)
  latencies,           \* deque(maxlen=window_size) of latencies (ms)
  memory_samples,      \* deque(maxlen=window_size) of resident memory (MB)
  last_frame_time,     \* None or the previous frame-completion instant
  frame_start_time,    \* None or the instant of the last start_frame()
  last_terminal_print, \* instant of construction or of the last report
  log_to_file,         \* constructor argument
  log_file,            \* NoFile, or the lines of the CSV file
  pushed,              \* history: values appended to each window since reset
  completions,         \* history: instants of effective end_frame() since reset
  reportTimes,         \* history: current_time of every terminal report
  appendCount,         \* history: number of log append attempts
  constructed_at,      \* history: time.time() read by the constructor
  calendar,            \* "steady", or "adjustable" / "adjusted": the clock is set back once
  out,                 \* what the last call did: op, raised, ret, prints, ...
  lock,                \* self.lock: 0 when free, else the thread holding it
  pc,                  \* where each thread is inside its current call
  loc,                 \* each thread's local variables
  callsLeft            \* calls the threads may still start

vars == <<clock, enabled, allocated, frame_times, latencies, memory_samples, last_frame_time,
          frame_start_time, last_terminal_print, log_to_file, log_file,
          pushed, completions, reportTimes, appendCount, constructed_at,
          calendar, out, lock, pc, loc, callsLeft>>

\* the variables that only threaded runs change
thvars == <<lock, pc, loc, callsLeft>>

(* ------------------------------ bounds --------------------------------- *)
\* constructor arguments window_size and terminal_interval (in seconds)
WindowSize == 2
TerminalInterval == 1
\* the last instant explored
MaxTime == 3
\* effective end_frame() calls explored between two resets
MaxFrames == 4
MaxSkewFrames == 2
\* threaded runs: the last instant explored and the calls made in all
MaxConcTime == 1
MaxCalls == 3

FrameCap == IF calendar = "steady" THEN MaxFrames ELSE MaxSkewFrames

(* -------------------------- program constants -------------------------- *)
MsPerSecond == 1000
BytesPerKiB == 1024

\* an optional value: None or Some(v)
None == <<>>
Some(v) == <<v>>
ValueOf(o) == o[1]
\* the CSV file: absent, or its lines
NoFile == [exists |-> FALSE, lines |-> <<>>]
File(lines) == [exists |-> TRUE, lines |-> lines]
Header == "timestamp,fps,avg_latency_ms,min_latency_ms,max_latency_ms,memory_mb"
Record == "record"

\* frames handed to the decorator, and what the wrapped tracker does with one
Frames == {"f1", "f2"}
TrackerResult(frame) == <<"tracked", frame>>
TrackerCall(frame) == "tracker(" \o frame \o ")"

\* memory_info().rss: the resident set size of the process at instant t, in
\* bytes (whole MiB; it differs between odd and even instants)
Rss(t) == (1 + 2 * (t % 2)) * BytesPerKiB * BytesPerKiB

\* outcomes of "with open(...) as f: f.write(...)"
IoOutcomes == {"ok", "open_fail", "write_fail"}

(* ----------------------------- arithmetic ------------------------------ *)
\* a / b for b > 0, kept exact
Frac(a, b) == <<a, b>>
Zero == Frac(0, 1)
FracLe(x, y) == x[1] * y[2] <= y[1] * x[2]
FracEq(x, y) == x[1] * y[2] = y[1] * x[2]

RECURSIVE Sum(_)
Sum(s) == IF s = <<>> THEN 0 ELSE Head(s) + Sum(Tail(s))

\* the oldest value taken for the smallest
MinFirst(s) == Head(s)

RECURSIVE Min(_)
Min(s) == IF Len(s) = 1 THEN Head(s)
          ELSE LET m == Min(Tail(s)) IN IF Head(s) < m THEN Head(s) ELSE m

RECURSIVE Max(_)
Max(s) == IF Len(s) = 1 THEN Head(s)
          ELSE LET m == Max(Tail(s)) IN IF Head(s) > m THEN Head(s) ELSE m

(* --------------------------- sliding window ---------------------------- *)
\* a full window that refuses the new value instead of dropping the oldest
PushDropNewest(w, v) == IF Len(w) < WindowSize THEN Append(w, v) ELSE w

\* deque(maxlen=WindowSize).append(v): the oldest value is dropped when full
Push(w, v) == IF Len(w) < WindowSize THEN Append(w, v)
              ELSE Append(Tail(w), v)

(* ----------------------------- get_metrics ----------------------------- *)
Metrics(ft, lat, mem, now) ==
  [fps            |-> IF Len(ft) > 0 /\ Sum(ft) > 0
                      THEN Frac(Len(ft), Sum(ft)) ELSE Zero,
   avg_latency_ms |-> IF Len(lat) > 0 THEN Frac(Sum(lat), Len(lat)) ELSE Zero,
   min_latency_ms |-> IF Len(lat) > 0 THEN Min(lat) ELSE 0,
   max_latency_ms |-> IF Len(lat) > 0 THEN Max(lat) ELSE 0,
   memory_mb      |-> IF Len(mem) > 0 THEN Frac(Sum(mem), Len(mem)) ELSE Zero,
   timestamp      |-> now]

(* ------------------------------ log sink ------------------------------- *)
\* open(log_file, 'w') then write the header
_init_log_file(enabledLog, io) ==
  IF ~enabledLog THEN [file |-> NoFile, warnings |-> 0, raised |-> FALSE]
  ELSE IF io = "ok" THEN [file |-> File(<<Header>>), warnings |-> 0, raised |-> FALSE]
  ELSE IF io = "write_fail" THEN [file |-> File(<<>>), warnings |-> 1, raised |-> FALSE]
  ELSE [file |-> NoFile, warnings |-> 1, raised |-> FALSE]

\* an append without the try/except
LogToCsvUncaught(file, io) ==
  IF io = "ok"
  THEN [file |-> File(Append(file.lines, Record)),
        warnings |-> 0, raised |-> FALSE]
  ELSE IF io = "write_fail"
  THEN [file |-> File(file.lines), warnings |-> 0, raised |-> TRUE]
  ELSE [file |-> file, warnings |-> 0, raised |-> TRUE]

\* open(log_file, 'a') then write one record
_log_to_csv(file, io) ==
  IF io = "ok"
  THEN [file |-> File(Append(file.lines, Record)),
        warnings |-> 0, raised |-> FALSE]
  ELSE IF io = "write_fail"
  THEN [file |-> File(file.lines),
        warnings |-> 1, raised |-> FALSE]
  ELSE [file |-> file, warnings |-> 1, raised |-> FALSE]

(* ----------------------------- frame timer ----------------------------- *)
\* line 73: latency in ms
Latency(now, fst) == (now - ValueOf(fst)) * MsPerSecond

\* an unset last_frame_time read as instant 0
FrameIntervalFromZero(now, lft) ==
  IF lft # None THEN <<now - ValueOf(lft)>> ELSE <<now>>

\* lines 77-79: the frame interval appended by this frame, if any
FrameInterval(now, lft) == IF lft # None THEN <<now - ValueOf(lft)>> ELSE <<>>

\* line 84: resident memory in MB
MemoryMb(now) == (Rss(now) \div BytesPerKiB) \div BytesPerKiB

\* an end_frame() that leaves last_frame_time as it found it
NextLastFrameTimeKept(now, lft) == lft

\* line 81: every effective end_frame() records its completion instant
NextLastFrameTime(now, lft) == Some(now)

(* ------------------------------ reporter ------------------------------- *)
\* a report only when more than the interval has elapsed
DueStrict(now, ltp) == (now - ltp) > TerminalInterval

\* line 87
Due(now, ltp) == (now - ltp) >= TerminalInterval

\* a reporter that forgets when it last printed
NextLastPrintStale(due, now, ltp) == ltp

\* line 89
NextLastPrint(due, now, ltp) == IF due THEN now ELSE ltp

\* a log sink with no rate limit of its own
ShouldLogAlways(due, logging) == logging

\* line 92
ShouldLog(due, logging) == due /\ logging

(* ------------------------------- calls --------------------------------- *)
\* what a call did: its name, whether an exception reached the caller, its
\* return value, terminal reports printed, log appends attempted, warnings
\* printed, and the calls a decorator made on the way
Out(op, raised, ret, prints, appends, warnings, calls) ==
  [op |-> op, raised |-> raised, ret |-> ret, prints |-> prints,
   appends |-> appends, warnings |-> warnings, calls |-> calls]

NothingPushed == [ft |-> <<>>, lat |-> <<>>, mem |-> <<>>]

\* the state after PerformanceMonitor(...)
Constructed(cal) ==
  /\ clock = 0
  /\ enabled = TRUE
  /\ allocated = TRUE
  /\ frame_times = <<>>
  /\ latencies = <<>>
  /\ memory_samples = <<>>
  /\ last_frame_time = None
  /\ frame_start_time = None
  /\ last_terminal_print = clock
  /\ log_to_file \in BOOLEAN
  /\ \E io \in IoOutcomes :
       LET r == _init_log_file(log_to_file, io) IN
         /\ log_file = r.file
         /\ out = Out("__init__", r.raised, None, 0, 0, r.warnings, <<>>)
  /\ pushed = NothingPushed
  /\ completions = <<>>
  /\ reportTimes = <<>>
  /\ appendCount = 0
  /\ constructed_at = clock
  /\ calendar = cal

\* the instants at which the next call can happen
Instants == clock..MaxTime

\* the disk outcomes that matter to an end_frame() at instant now
DiskAnswers(now) ==
  IF ShouldLog(Due(now, last_terminal_print), log_to_file) THEN IoOutcomes
  ELSE {"ok"}

\* the calendar clock is set back while a frame is being processed
\* (time.time() is not monotonic)
ClockStepBack ==
  /\ calendar = "adjustable"
  /\ out.op = "start_frame"
  /\ clock > 0
  /\ clock' \in 0..(clock - 1)
  /\ calendar' = "adjusted"
  /\ UNCHANGED <<thvars, enabled, allocated, frame_times, latencies, memory_samples,
                 last_frame_time, frame_start_time, last_terminal_print,
                 log_to_file, log_file, pushed, completions, reportTimes,
                 appendCount, constructed_at, out>>

start_frame ==
  /\ enabled
  /\ \E now \in Instants :
       /\ clock' = now
       /\ frame_start_time' = Some(now)
  /\ out' = Out("start_frame", FALSE, None, 0, 0, 0, <<>>)
  /\ UNCHANGED <<thvars, enabled, allocated, frame_times, latencies,
                 memory_samples, last_frame_time, last_terminal_print,
                 log_to_file, log_file, pushed, completions, reportTimes,
                 appendCount, constructed_at, calendar>>

\* an end_frame() that returns early only after the reporter has run
EndFrameSkippedAfterReport(now, io) ==
  LET due == (now - last_terminal_print) >= TerminalInterval IN
  [frame_times |-> frame_times, latencies |-> latencies,
   memory_samples |-> memory_samples, last_frame_time |-> last_frame_time,
   last_terminal_print |-> IF due THEN now ELSE last_terminal_print,
   log_file |-> log_file,
   effective |-> FALSE, pushed |-> NothingPushed,
   raised |-> FALSE, prints |-> IF due THEN 1 ELSE 0, appends |-> 0,
   warnings |-> 0]

\* lines 66-67: end_frame() when frame_start_time is None
EndFrameSkipped(now, io) ==
  [frame_times |-> frame_times, latencies |-> latencies,
   memory_samples |-> memory_samples, last_frame_time |-> last_frame_time,
   last_terminal_print |-> last_terminal_print, log_file |-> log_file,
   effective |-> FALSE, pushed |-> NothingPushed,
   raised |-> FALSE, prints |-> 0, appends |-> 0, warnings |-> 0]

\* lines 69-93: end_frame() when frame_start_time is set
EndFrameTimed(fst, now, io) ==
  LET current_time == now
      latency == Latency(current_time, fst)
      interval == FrameInterval(current_time, last_frame_time)
      mb == MemoryMb(current_time)
      due == Due(current_time, last_terminal_print)
      log == IF ShouldLog(due, log_to_file) THEN _log_to_csv(log_file, io)
             ELSE [file |-> log_file, warnings |-> 0, raised |-> FALSE]
  IN [frame_times |-> IF interval # <<>> THEN Push(frame_times, interval[1])
                      ELSE frame_times,
      latencies |-> Push(latencies, latency),
      memory_samples |-> Push(memory_samples, mb),
      last_frame_time |-> NextLastFrameTime(current_time, last_frame_time),
      last_terminal_print |->
        NextLastPrint(due, current_time, last_terminal_print),
      log_file |-> log.file,
      effective |-> TRUE,
      pushed |-> [ft |-> interval, lat |-> <<latency>>, mem |-> <<mb>>],
      raised |-> log.raised,
      prints |-> IF due THEN 1 ELSE 0,
      appends |-> IF ShouldLog(due, log_to_file) THEN 1 ELSE 0,
      warnings |-> log.warnings]

\* what end_frame() does when frame_start_time is fst, the clock reads now and
\* the disk answers io
EndFrameResult(fst, now, io) ==
  IF fst = None THEN EndFrameSkipped(now, io) ELSE EndFrameTimed(fst, now, io)

\* the monitor's next state after an end_frame() with result r at instant now
ApplyEndFrame(r, now) ==
  /\ r.effective => Len(pushed.lat) < FrameCap
  /\ frame_times' = r.frame_times
  /\ latencies' = r.latencies
  /\ memory_samples' = r.memory_samples
  /\ last_frame_time' = r.last_frame_time
  /\ last_terminal_print' = r.last_terminal_print
  /\ log_file' = r.log_file
  /\ pushed' = [ft |-> pushed.ft \o r.pushed.ft,
                lat |-> pushed.lat \o r.pushed.lat,
                mem |-> pushed.mem \o r.pushed.mem]
  /\ completions' = IF r.effective THEN Append(completions, now)
                    ELSE completions
  /\ reportTimes' = IF r.prints > 0 THEN Append(reportTimes, now)
                    ELSE reportTimes
  /\ appendCount' = appendCount + r.appends

end_frame ==
  /\ enabled
  /\ \E now \in Instants :
       \E io \in DiskAnswers(now) :
         LET r == EndFrameResult(frame_start_time, now, io) IN
           /\ clock' = now
           /\ ApplyEndFrame(r, now)
           /\ out' = Out("end_frame", r.raised, None, r.prints, r.appends,
                         r.warnings, <<>>)
  /\ UNCHANGED <<thvars, enabled, allocated, frame_start_time, log_to_file,
                 constructed_at, calendar>>

get_metrics ==
  /\ enabled
  /\ \E now \in Instants :
       /\ clock' = now
       /\ out' = Out("get_metrics", FALSE,
                     Some(Metrics(frame_times, latencies, memory_samples, now)),
                     0, 0, 0, <<>>)
  /\ UNCHANGED <<thvars, enabled, allocated, frame_times, latencies,
                 memory_samples, last_frame_time, frame_start_time,
                 last_terminal_print, log_to_file, log_file, pushed,
                 completions, reportTimes, appendCount, constructed_at,
                 calendar>>

\* a reset() that forgets frame_start_time
ResetStateKeepsStart ==
  [frame_times |-> <<>>, latencies |-> <<>>, memory_samples |-> <<>>,
   last_frame_time |-> None, frame_start_time |-> frame_start_time]

\* lines 156-160: what reset() leaves in the windows and timers
ResetState ==
  [frame_times |-> <<>>, latencies |-> <<>>, memory_samples |-> <<>>,
   last_frame_time |-> None, frame_start_time |-> None]

reset ==
  /\ enabled
  /\ frame_times' = ResetState.frame_times
  /\ latencies' = ResetState.latencies
  /\ memory_samples' = ResetState.memory_samples
  /\ last_frame_time' = ResetState.last_frame_time
  /\ frame_start_time' = ResetState.frame_start_time
  /\ pushed' = NothingPushed
  /\ completions' = <<>>
  /\ clock' \in Instants
  /\ out' = Out("reset", FALSE, None, 0, 0, 0, <<>>)
  /\ UNCHANGED <<thvars, enabled, allocated, last_terminal_print, log_to_file,
                 log_file, reportTimes, appendCount, constructed_at, calendar>>

\* TrackerWithMonitoring.process_frame(frame), called at instant t: the
\* wrapped call returns or raises at instant now
process_frame ==
  /\ enabled
  /\ \E frame \in Frames, t \in Instants :
       \E now \in t..MaxTime :
         /\ frame_start_time' = Some(t)
         /\ clock' = now
         /\ \/ /\ out' = Out("process_frame", TRUE, None, 0, 0, 0,
                              <<"start_frame", TrackerCall(frame)>>)
               /\ UNCHANGED <<frame_times, latencies, memory_samples,
                              last_frame_time, last_terminal_print, log_file,
                              pushed, completions, reportTimes, appendCount>>
            \/ \E io \in DiskAnswers(now) :
                 LET r == EndFrameResult(Some(t), now, io) IN
                   /\ ApplyEndFrame(r, now)
                   /\ out' = Out("process_frame", r.raised,
                                 Some(TrackerResult(frame)), r.prints,
                                 r.appends, r.warnings,
                                 <<"start_frame", TrackerCall(frame),
                                   "end_frame">>)
  /\ UNCHANGED <<thvars, enabled, allocated, log_to_file, constructed_at, calendar>>

(* --------------------------- disabled mode ----------------------------- *)
\* the snapshot of a disabled monitor
EmptySnapshot(now) ==
  [fps |-> Zero, avg_latency_ms |-> Zero, min_latency_ms |-> 0,
   max_latency_ms |-> 0, memory_mb |-> Zero, timestamp |-> now]

\* a disabled monitor that still creates its log file
DisabledLogFileCreated(logging) ==
  IF logging THEN File(<<Header>>) ELSE NoFile

\* the log file of a disabled monitor
DisabledLogFile(logging) == NoFile

\* construction with the flag off: no windows, no log file
ConstructedDisabled ==
  /\ clock = 0
  /\ enabled = FALSE
  /\ allocated = FALSE
  /\ frame_times = <<>>
  /\ latencies = <<>>
  /\ memory_samples = <<>>
  /\ last_frame_time = None
  /\ frame_start_time = None
  /\ last_terminal_print = clock
  /\ log_to_file \in BOOLEAN
  /\ log_file = DisabledLogFile(log_to_file)
  /\ out = Out("__init__", FALSE, None, 0, 0, 0, <<>>)
  /\ pushed = NothingPushed
  /\ completions = <<>>
  /\ reportTimes = <<>>
  /\ appendCount = 0
  /\ constructed_at = clock
  /\ calendar = "steady"

\* start_frame(), end_frame(), reset() with the flag off
NoOpDisabled(op) ==
  /\ ~enabled
  /\ clock' \in Instants
  /\ out' = Out(op, FALSE, None, 0, 0, 0, <<>>)
  /\ UNCHANGED <<thvars, enabled, allocated, frame_times, latencies,
                 memory_samples, last_frame_time, frame_start_time,
                 last_terminal_print, log_to_file, log_file, pushed,
                 completions, reportTimes, appendCount, constructed_at,
                 calendar>>

StartFrameDisabled == NoOpDisabled("start_frame")

EndFrameDisabled == NoOpDisabled("end_frame")

ResetDisabled == NoOpDisabled("reset")

GetMetricsDisabled ==
  /\ ~enabled
  /\ \E now \in Instants :
       /\ clock' = now
       /\ out' = Out("get_metrics", FALSE, Some(EmptySnapshot(now)),
                     0, 0, 0, <<>>)
  /\ UNCHANGED <<thvars, enabled, allocated, frame_times, latencies,
                 memory_samples, last_frame_time, frame_start_time,
                 last_terminal_print, log_to_file, log_file, pushed,
                 completions, reportTimes, appendCount, constructed_at,
                 calendar>>

\* the decorator with the flag off calls the wrapped unit directly
ProcessFrameDisabled ==
  /\ ~enabled
  /\ \E frame \in Frames :
       /\ clock' \in Instants
       /\ \/ out' = Out("process_frame", TRUE, None, 0, 0, 0,
                         <<TrackerCall(frame)>>)
          \/ out' = Out("process_frame", FALSE, Some(TrackerResult(frame)),
                         0, 0, 0, <<TrackerCall(frame)>>)
  /\ UNCHANGED <<thvars, enabled, allocated, frame_times, latencies, memory_samples,
                 last_frame_time, frame_start_time, last_terminal_print,
                 log_to_file, log_file, pushed, completions, reportTimes,
                 appendCount, constructed_at, calendar>>

(* ------------------------------ threads -------------------------------- *)
\* Two threads share one monitor.  A step is one access to shared data that
\* is not protected by the lock, or one critical section's body.
Threads == {1, 2}

\* a thread's locals: current_time of its end_frame(), and the snapshots its
\* report read for the terminal and for the log record
IdleLocals == [now |-> 0, shown |-> None, logged |-> None]

\* no thread is inside a call
NoThreads(calls) ==
  /\ lock = 0
  /\ pc = [t \in Threads |-> "idle"]
  /\ loc = [t \in Threads |-> IdleLocals]
  /\ callsLeft = calls

ConcInstants == clock..MaxConcTime

\* "with self.lock:" is reached at these places (lines 71, 97, 155)
AcquireLabels == {"ef_lock", "pt_lock", "lg_lock", "gm_lock", "rs_lock"}

\* the critical section entered from each of them
Entered(label) ==
  CASE label = "ef_lock" -> "ef_body"
    [] label = "pt_lock" -> "pt_read"
    [] label = "lg_lock" -> "lg_read"
    [] label = "gm_lock" -> "gm_read"
    [] label = "rs_lock" -> "rs_clear"

\* the places where a thread is printing to the terminal or writing the file
IoLabels == {"pt_print", "lg_write", "rs_print"}

Goto(t, label) == pc' = [pc EXCEPT ![t] = label]

\* thread t returns (or raises) from its call
Finish(t, o) ==
  /\ pc' = [pc EXCEPT ![t] = "idle"]
  /\ loc' = [loc EXCEPT ![t] = IdleLocals]
  /\ out' = o

\* thread t starts a call
Begin(t) ==
  /\ pc[t] = "idle"
  /\ callsLeft > 0
  /\ callsLeft' = callsLeft - 1

\* what thread t's end_frame() has done when it returns
EndFrameOut(t, raised, appends, warnings) ==
  Out("end_frame", raised, None,
      IF loc[t].shown # None THEN 1 ELSE 0, appends, warnings, <<>>)

\* lines 60-62, no lock taken
T_start_frame(t) ==
  /\ Begin(t)
  /\ \E now \in ConcInstants :
       /\ clock' = now
       /\ frame_start_time' = Some(now)
  /\ out' = Out("start_frame", FALSE, None, 0, 0, 0, <<>>)
  /\ UNCHANGED <<lock, pc, loc, enabled, allocated, frame_times, latencies,
                 memory_samples, last_frame_time, last_terminal_print,
                 log_to_file, log_file, pushed, completions, reportTimes,
                 appendCount, constructed_at, calendar>>

\* lines 66-69: the unset check, made without the lock, then time.time()
T_end_frame(t) ==
  /\ Begin(t)
  /\ IF frame_start_time = None
     THEN /\ Finish(t, EndFrameOut(t, FALSE, 0, 0))
          /\ UNCHANGED clock
     ELSE \E now \in ConcInstants :
            /\ clock' = now
            /\ loc' = [loc EXCEPT ![t].now = now]
            /\ Goto(t, "ef_lock")
            /\ UNCHANGED out
  /\ UNCHANGED <<lock, enabled, allocated, frame_times, latencies,
                 memory_samples, last_frame_time, frame_start_time,
                 last_terminal_print, log_to_file, log_file, pushed,
                 completions, reportTimes, appendCount, constructed_at,
                 calendar>>

\* get_metrics() is called
T_get_metrics(t) ==
  /\ Begin(t)
  /\ Goto(t, "gm_lock")
  /\ UNCHANGED <<clock, lock, loc, out, enabled, allocated, frame_times,
                 latencies, memory_samples, last_frame_time, frame_start_time,
                 last_terminal_print, log_to_file, log_file, pushed,
                 completions, reportTimes, appendCount, constructed_at,
                 calendar>>

\* reset() is called
T_reset(t) ==
  /\ Begin(t)
  /\ Goto(t, "rs_lock")
  /\ UNCHANGED <<clock, lock, loc, out, enabled, allocated, frame_times,
                 latencies, memory_samples, last_frame_time, frame_start_time,
                 last_terminal_print, log_to_file, log_file, pushed,
                 completions, reportTimes, appendCount, constructed_at,
                 calendar>>

\* "with self.lock:" blocks until the lock is free, then takes it
Acquire(t) ==
  /\ pc[t] \in AcquireLabels
  /\ lock = 0
  /\ lock' = t
  /\ Goto(t, Entered(pc[t]))
  /\ UNCHANGED <<clock, loc, out, callsLeft, enabled, allocated, frame_times,
                 latencies, memory_samples, last_frame_time, frame_start_time,
                 last_terminal_print, log_to_file, log_file, pushed,
                 completions, reportTimes, appendCount, constructed_at,
                 calendar>>

\* an end_frame() that keeps the lock while it reports
LockKeptForReport(t) == t

\* line 84 to 86: the with block ends before the reporter runs
LockAfterUpdate(t) == 0

\* lines 72-84, under the lock: frame_start_time is read again; when a
\* reset() has cleared it meanwhile, current_time - None raises TypeError,
\* the with block releases the lock and the exception reaches the caller
EndFrameBody(t) ==
  /\ pc[t] = "ef_body"
  /\ IF frame_start_time = None
     THEN /\ lock' = 0
          /\ Finish(t, EndFrameOut(t, TRUE, 0, 0))
          /\ UNCHANGED <<frame_times, latencies, memory_samples,
                         last_frame_time, pushed, completions>>
     ELSE LET current_time == loc[t].now
              latency == Latency(current_time, frame_start_time)
              interval == FrameInterval(current_time, last_frame_time)
              mb == MemoryMb(current_time)
          IN /\ latencies' = Push(latencies, latency)
             /\ frame_times' = IF interval # <<>>
                               THEN Push(frame_times, interval[1])
                               ELSE frame_times
             /\ last_frame_time' =
                  NextLastFrameTime(current_time, last_frame_time)
             /\ memory_samples' = Push(memory_samples, mb)
             /\ pushed' = [ft |-> pushed.ft \o interval,
                           lat |-> Append(pushed.lat, latency),
                           mem |-> Append(pushed.mem, mb)]
             /\ completions' = Append(completions, current_time)
             /\ lock' = LockAfterUpdate(t)
             /\ Goto(t, "ef_gate")
             /\ UNCHANGED <<loc, out>>
  /\ UNCHANGED <<clock, callsLeft, enabled, allocated, frame_start_time,
                 last_terminal_print, log_to_file, log_file, reportTimes,
                 appendCount, constructed_at, calendar>>

\* line 87, outside the lock
EndFrameGate(t) ==
  /\ pc[t] = "ef_gate"
  /\ IF Due(loc[t].now, last_terminal_print)
     THEN Goto(t, "pt_lock") /\ UNCHANGED <<loc, out>>
     ELSE Finish(t, EndFrameOut(t, FALSE, 0, 0))
  /\ UNCHANGED <<clock, lock, callsLeft, enabled, allocated, frame_times,
                 latencies, memory_samples, last_frame_time, frame_start_time,
                 last_terminal_print, log_to_file, log_file, pushed,
                 completions, reportTimes, appendCount, constructed_at,
                 calendar>>

\* lines 97-127, under the lock: the snapshot of the windows as they are now
Snapshot == Metrics(frame_times, latencies, memory_samples, clock)

\* line 131: _print_to_terminal() calls get_metrics()
PrintRead(t) ==
  /\ pc[t] = "pt_read"
  /\ loc' = [loc EXCEPT ![t].shown = Some(Snapshot)]
  /\ lock' = 0
  /\ Goto(t, "pt_print")
  /\ UNCHANGED <<clock, out, callsLeft, enabled, allocated, frame_times,
                 latencies, memory_samples, last_frame_time, frame_start_time,
                 last_terminal_print, log_to_file, log_file, pushed,
                 completions, reportTimes, appendCount, constructed_at,
                 calendar>>

\* lines 133-136: the terminal report is printed
PrintReport(t) ==
  /\ pc[t] = "pt_print"
  /\ reportTimes' = Append(reportTimes, loc[t].now)
  /\ Goto(t, "ef_mark")
  /\ UNCHANGED <<clock, lock, loc, out, callsLeft, enabled, allocated,
                 frame_times, latencies, memory_samples, last_frame_time,
                 frame_start_time, last_terminal_print, log_to_file, log_file,
                 pushed, completions, appendCount, constructed_at, calendar>>

\* lines 89-92: last_terminal_print = current_time, then the log sink if
\* configured
EndFrameMark(t) ==
  /\ pc[t] = "ef_mark"
  /\ last_terminal_print' = loc[t].now
  /\ IF log_to_file
     THEN Goto(t, "lg_lock") /\ UNCHANGED <<loc, out>>
     ELSE Finish(t, EndFrameOut(t, FALSE, 0, 0))
  /\ UNCHANGED <<clock, lock, callsLeft, enabled, allocated, frame_times,
                 latencies, memory_samples, last_frame_time, frame_start_time,
                 log_to_file, log_file, pushed, completions, reportTimes,
                 appendCount, constructed_at, calendar>>

\* line 140: _log_to_csv() calls get_metrics() again
LogRead(t) ==
  /\ pc[t] = "lg_read"
  /\ loc' = [loc EXCEPT ![t].logged = Some(Snapshot)]
  /\ lock' = 0
  /\ Goto(t, "lg_write")
  /\ UNCHANGED <<clock, out, callsLeft, enabled, allocated, frame_times,
                 latencies, memory_samples, last_frame_time, frame_start_time,
                 last_terminal_print, log_to_file, log_file, pushed,
                 completions, reportTimes, appendCount, constructed_at,
                 calendar>>

\* lines 142-151: the record is appended, or the failure is printed
LogWrite(t) ==
  /\ pc[t] = "lg_write"
  /\ \E io \in IoOutcomes :
       LET r == _log_to_csv(log_file, io) IN
         /\ log_file' = r.file
         /\ Finish(t, EndFrameOut(t, r.raised, 1, r.warnings))
  /\ appendCount' = appendCount + 1
  /\ UNCHANGED <<clock, lock, callsLeft, enabled, allocated, frame_times,
                 latencies, memory_samples, last_frame_time, frame_start_time,
                 last_terminal_print, log_to_file, pushed, completions,
                 reportTimes, constructed_at, calendar>>

\* lines 97-127: a caller's get_metrics() computes under the lock and returns
MetricsRead(t) ==
  /\ pc[t] = "gm_read"
  /\ lock' = 0
  /\ Finish(t, Out("get_metrics", FALSE, Some(Snapshot), 0, 0, 0, <<>>))
  /\ UNCHANGED <<clock, callsLeft, enabled, allocated, frame_times,
                 latencies, memory_samples, last_frame_time, frame_start_time,
                 last_terminal_print, log_to_file, log_file, pushed,
                 completions, reportTimes, appendCount, constructed_at,
                 calendar>>

\* lines 156-160, under the lock
ResetClear(t) ==
  /\ pc[t] = "rs_clear"
  /\ frame_times' = ResetState.frame_times
  /\ latencies' = ResetState.latencies
  /\ memory_samples' = ResetState.memory_samples
  /\ last_frame_time' = ResetState.last_frame_time
  /\ frame_start_time' = ResetState.frame_start_time
  /\ pushed' = NothingPushed
  /\ completions' = <<>>
  /\ Goto(t, "rs_print")
  /\ UNCHANGED <<clock, lock, loc, out, callsLeft, enabled, allocated,
                 last_terminal_print, log_to_file, log_file, reportTimes,
                 appendCount, constructed_at, calendar>>

\* line 161: print("Performance monitor reset"), still inside the with
\* block, which then ends
ResetPrint(t) ==
  /\ pc[t] = "rs_print"
  /\ lock' = 0
  /\ Finish(t, Out("reset", FALSE, None, 0, 0, 0, <<>>))
  /\ UNCHANGED <<clock, callsLeft, enabled, allocated, frame_times,
                 latencies, memory_samples, last_frame_time, frame_start_time,
                 last_terminal_print, log_to_file, log_file, pushed,
                 completions, reportTimes, appendCount, constructed_at,
                 calendar>>

\* thread t starts a call
Call(t) ==
  \/ T_start_frame(t)
  \/ T_end_frame(t)
  \/ T_get_metrics(t)
  \/ T_reset(t)

\* thread t takes the next step of the call it is in
Step(t) ==
  \/ Acquire(t)
  \/ EndFrameBody(t)
  \/ EndFrameGate(t)
  \/ PrintRead(t)
  \/ PrintReport(t)
  \/ EndFrameMark(t)
  \/ LogRead(t)
  \/ LogWrite(t)
  \/ MetricsRead(t)
  \/ ResetClear(t)
  \/ ResetPrint(t)

(* --------------------------- specifications ---------------------------- *)
Init ==
  /\ \/ Constructed("steady")
     \/ ConstructedDisabled
  /\ NoThreads(0)

InitSkew == Constructed("adjustable") /\ NoThreads(0)

InitConc == Constructed("steady") /\ NoThreads(MaxCalls)

Next ==
  \/ start_frame
  \/ end_frame
  \/ get_metrics
  \/ reset
  \/ process_frame
  \/ StartFrameDisabled
  \/ EndFrameDisabled
  \/ GetMetricsDisabled
  \/ ResetDisabled
  \/ ProcessFrameDisabled

Spec == Init /\ [][Next]_vars

\* the same program when the calendar clock may be set back
NextSkew ==
  \/ ClockStepBack
  \/ start_frame
  \/ end_frame
  \/ get_metrics
  \/ reset
  \/ process_frame

SpecSkew == InitSkew /\ [][NextSkew]_vars

\* the same monitor used by two threads; a thread inside a call keeps being
\* scheduled
NextConc == \E t \in Threads : Call(t) \/ Step(t)

SpecConc ==
  /\ InitConc
  /\ [][NextConc]_vars
  /\ \A t \in Threads : WF_vars(Step(t))

(* ------------------------------ properties ----------------------------- *)
Smaller(a, b) == IF a < b THEN a ELSE b
LastN(h, n) == SubSeq(h, Len(h) - n + 1, Len(h))
\* the most recent min(N, C) of the N values in h
Recent(h) == LastN(h, Smaller(Len(h), WindowSize))
\* differences between consecutive instants
Diffs(c) == [i \in 1..(Len(c) - 1) |-> c[i + 1] - c[i]]

\* C1: each of the three windows holds exactly the most recent min(N, C) of
\* the N values pushed since construction or the last reset, in insertion
\* order, so its length stays within 0..C.
C1_WindowsHoldMostRecent ==
  /\ latencies = Recent(pushed.lat)
  /\ frame_times = Recent(pushed.ft)
  /\ memory_samples = Recent(pushed.mem)
  /\ Len(latencies) = Smaller(Len(pushed.lat), WindowSize)
  /\ Len(frame_times) = Smaller(Len(pushed.ft), WindowSize)
  /\ Len(memory_samples) = Smaller(Len(pushed.mem), WindowSize)
  /\ \A w \in {latencies, frame_times, memory_samples} :
       0 <= Len(w) /\ Len(w) <= WindowSize

\* every window has evicted a value, and the order of the survivors shows
C1_Witness ==
  /\ Len(pushed.ft) > WindowSize
  /\ Len(pushed.lat) > WindowSize
  /\ Len(pushed.mem) > WindowSize
  /\ latencies[1] # latencies[Len(latencies)]
  /\ frame_times[1] # frame_times[Len(frame_times)]
  /\ memory_samples[1] # memory_samples[Len(memory_samples)]

\* C2: end_frame() while frame_start_time is unset raises nothing, leaves the
\* windows, last_frame_time, the last-report time and the log file unchanged
\* and emits no report, whatever time has elapsed.
C2_EndFrameWithoutStart ==
  [][(enabled /\ frame_start_time = None /\ out'.op = "end_frame") =>
       /\ frame_times' = frame_times
       /\ latencies' = latencies
       /\ memory_samples' = memory_samples
       /\ last_frame_time' = last_frame_time
       /\ last_terminal_print' = last_terminal_print
       /\ log_file' = log_file
       /\ reportTimes' = reportTimes
       /\ appendCount' = appendCount
       /\ out'.prints = 0 /\ out'.appends = 0 /\ out'.warnings = 0
       /\ ~out'.raised]_vars

\* end_frame() has just returned early although a report was due
C2_Witness ==
  /\ enabled
  /\ out.op = "end_frame"
  /\ frame_start_time = None
  /\ clock - last_terminal_print >= TerminalInterval

\* C3: after k >= 1 effective end_frame() calls since construction or the last
\* reset, the frame-interval window holds min(k - 1, C) samples, each the
\* difference between two consecutive frame-completion instants.
C3_FirstFrameNoInterval ==
  /\ frame_times = Recent(Diffs(completions))
  /\ Len(completions) >= 1 =>
       Len(frame_times) = Smaller(Len(completions) - 1, WindowSize)

\* one frame has completed since a reset that followed a report, at an instant
\* other than 0, and the frame-interval window is empty
C3_Witness ==
  /\ Len(reportTimes) = 2
  /\ Len(completions) = 1
  /\ completions[1] > 0
  /\ latencies # <<>>
  /\ frame_times = <<>>

\* C4: any two consecutive reports are at least terminal_interval apart, the
\* first report is no earlier than terminal_interval after construction, and
\* there is at most one log record per report.
C4_ReportsRateLimited ==
  /\ \A i \in 1..(Len(reportTimes) - 1) :
       reportTimes[i + 1] - reportTimes[i] >= TerminalInterval
  /\ reportTimes # <<>> => reportTimes[1] - constructed_at >= TerminalInterval
  /\ appendCount <= Len(reportTimes)

\* two reports were printed although three frames completed within the run
C4_Witness ==
  /\ Len(reportTimes) = 2
  /\ Len(completions) >= 3

\* C5: with log_to_file on, an end_frame() prints a terminal report exactly
\* when it attempts one log append, so the two counts are always equal.
C5_PrintAndLogTogether ==
  (enabled /\ log_to_file) =>
    /\ appendCount = Len(reportTimes)
    /\ out.prints = out.appends
    /\ out.prints <= 1

\* a second report has just been printed and logged by end_frame()
C5_Witness ==
  /\ enabled /\ log_to_file
  /\ out.op = "end_frame"
  /\ out.prints = 1 /\ out.appends = 1
  /\ appendCount = 2

\* C6: reset() empties the three windows and unsets last_frame_time and
\* frame_start_time; get_metrics() right after it returns the zero snapshot
\* and end_frame() right after it changes nothing.
C6_ResetClears ==
  [][/\ (enabled /\ out'.op = "reset") =>
          /\ frame_times' = <<>> /\ latencies' = <<>>
          /\ memory_samples' = <<>>
          /\ last_frame_time' = None /\ frame_start_time' = None
     /\ (enabled /\ out.op = "reset" /\ out'.op = "get_metrics") =>
          LET m == ValueOf(out'.ret) IN
            /\ m.fps = Zero /\ m.avg_latency_ms = Zero
            /\ m.min_latency_ms = 0 /\ m.max_latency_ms = 0
            /\ m.memory_mb = Zero
     /\ (enabled /\ out.op = "reset" /\ out'.op = "end_frame") =>
          /\ frame_times' = frame_times /\ latencies' = latencies
          /\ memory_samples' = memory_samples
          /\ last_frame_time' = last_frame_time
          /\ last_terminal_print' = last_terminal_print
          /\ log_file' = log_file
          /\ out'.prints = 0 /\ out'.appends = 0 /\ ~out'.raised]_vars

\* reset() has just run on a monitor that had recorded and reported frames
\* and whose start time was set, with a report due
C6_Witness ==
  /\ enabled
  /\ out.op = "reset"
  /\ reportTimes # <<>>
  /\ clock - last_terminal_print >= TerminalInterval

RECURSIVE Total(_)
Total(s) == IF Len(s) = 0 THEN 0
            ELSE s[Len(s)] + Total(SubSeq(s, 1, Len(s) - 1))
IsSmallest(v, s) == (\E i \in 1..Len(s) : s[i] = v) /\ \A i \in 1..Len(s) : v <= s[i]
IsLargest(v, s) == (\E i \in 1..Len(s) : s[i] = v) /\ \A i \in 1..Len(s) : v >= s[i]
\* x is the mean of the values of s, or 0 when there are none
IsMean(x, s) == IF s = <<>> THEN x = Zero
                ELSE x[2] > 0 /\ FracEq(x, Frac(Total(s), Len(s)))

\* C7: get_metrics() returns the mean/min/max of the latencies currently held
\* (the most recent C pushed), the mean of the memory samples held, and
\* fps = 1/mean of the frame intervals held when that mean is > 0, else 0;
\* aggregates over an empty window are 0 and the call does not raise.
C7_MetricsAreWindowAggregates ==
  (enabled /\ out.op = "get_metrics") =>
    LET m == ValueOf(out.ret)
        lat == Recent(pushed.lat)
        ft == Recent(pushed.ft)
        mem == Recent(pushed.mem)
    IN /\ ~out.raised
       /\ IsMean(m.avg_latency_ms, lat)
       /\ IF lat = <<>> THEN m.min_latency_ms = 0 /\ m.max_latency_ms = 0
          ELSE IsSmallest(m.min_latency_ms, lat)
               /\ IsLargest(m.max_latency_ms, lat)
       /\ IsMean(m.memory_mb, mem)
       /\ IF ft # <<>> /\ Total(ft) > 0
          THEN m.fps[2] > 0 /\ FracEq(m.fps, Frac(Len(ft), Total(ft)))
          ELSE m.fps = Zero

\* a snapshot taken after values were evicted, with distinct latencies held
\* (the newest the smallest) and a positive frame rate
C7_Witness ==
  /\ enabled
  /\ out.op = "get_metrics"
  /\ Len(pushed.ft) > WindowSize
  /\ ValueOf(out.ret).min_latency_ms < ValueOf(out.ret).max_latency_ms
  /\ latencies[Len(latencies)] < latencies[1]
  /\ ValueOf(out.ret).fps[1] > 0

\* C8: every snapshot has fps, avg/min/max latency and memory >= 0 and
\* min <= avg <= max, also when the calendar clock steps backwards.
C8_SnapshotNonNegative ==
  (enabled /\ out.op = "get_metrics") =>
    LET m == ValueOf(out.ret) IN
      /\ FracLe(Zero, m.fps)
      /\ FracLe(Zero, m.avg_latency_ms)
      /\ m.min_latency_ms >= 0
      /\ m.max_latency_ms >= 0
      /\ FracLe(Zero, m.memory_mb)
      /\ FracLe(Frac(m.min_latency_ms, 1), m.avg_latency_ms)
      /\ FracLe(m.avg_latency_ms, Frac(m.max_latency_ms, 1))

\* C9: a failed log write never reaches the caller: the constructor and
\* end_frame() return normally, and end_frame() leaves the windows,
\* last_frame_time and the last-report time as a successful write would.
C9_LogFailureContained ==
  /\ out.op \in {"__init__", "end_frame"} => ~out.raised
  /\ enabled =>
       \A now \in Instants, io \in IoOutcomes :
         LET a == EndFrameResult(frame_start_time, now, io)
             b == EndFrameResult(frame_start_time, now, "ok")
         IN /\ ~a.raised
            /\ a.frame_times = b.frame_times
            /\ a.latencies = b.latencies
            /\ a.memory_samples = b.memory_samples
            /\ a.last_frame_time = b.last_frame_time
            /\ a.last_terminal_print = b.last_terminal_print

\* a due report's log write has just failed inside end_frame(), on a monitor
\* whose header write had succeeded
C9_Witness ==
  /\ out.op = "end_frame"
  /\ out.appends = 1
  /\ out.warnings = 1
  /\ ~out.raised
  /\ last_terminal_print = clock
  /\ log_file = File(<<Header>>)

\* C10: with the enabled flag off nothing is allocated, recorded, printed or
\* written; get_metrics() returns the empty snapshot and the decorator's
\* process_frame calls only the wrapped unit and returns its result.
C10_DisabledIsInert ==
  ~enabled =>
    /\ ~allocated
    /\ frame_times = <<>> /\ latencies = <<>> /\ memory_samples = <<>>
    /\ last_frame_time = None /\ frame_start_time = None
    /\ log_file = NoFile
    /\ reportTimes = <<>> /\ appendCount = 0
    /\ out.prints = 0 /\ out.appends = 0 /\ out.warnings = 0
    /\ out.op = "get_metrics" =>
         out.ret = Some(EmptySnapshot(ValueOf(out.ret).timestamp))
    /\ out.op = "process_frame" =>
         \E f \in Frames :
           /\ out.calls = <<TrackerCall(f)>>
           /\ ~out.raised => out.ret = Some(TrackerResult(f))

\* a disabled decorator has returned the tracker's result for a frame, file
\* logging being configured
C10_Witness ==
  /\ ~enabled
  /\ log_to_file
  /\ out.op = "process_frame"
  /\ out.ret = Some(TrackerResult("f2"))

\* C11: the decorator's process_frame(frame) calls start_frame(), the wrapped
\* tracker exactly once, then end_frame(), in this order, so that no call
\* leaves a start_frame() without its end_frame(); a call that returns hands
\* back the tracker's result unchanged and has added exactly one latency
\* sample.
C11_ProcessFramePaired ==
  [][(enabled /\ out'.op = "process_frame") =>
       /\ \E f \in Frames :
            /\ out'.calls = <<"start_frame", TrackerCall(f), "end_frame">>
            /\ ~out'.raised => out'.ret = Some(TrackerResult(f))
       /\ ~out'.raised => Len(pushed'.lat) = Len(pushed.lat) + 1
    ]_vars

\* C12: the lock is never held across I/O: while a thread is printing to the
\* terminal or writing the log file, in end_frame()'s report path or in
\* reset(), no thread holds the lock.
C12_LockNotHeldAcrossIo ==
  \A t \in Threads : pc[t] \in IoLabels => lock = 0

\* C13: no interleaving deadlocks: a thread never waits for the lock while it
\* holds it itself, every call that has started returns, and a held lock is
\* released, the threads being scheduled fairly.
C13_NoDeadlock ==
  /\ [](\A t \in Threads : pc[t] \in AcquireLabels => lock # t)
  /\ \A t \in Threads : (pc[t] # "idle") ~> (pc[t] = "idle")
  /\ (lock # 0) ~> (lock = 0)

\* a reader holds the lock inside get_metrics() while the other thread's
\* end_frame(), having printed its report, waits for the lock to read the
\* snapshot for the log record
C13_Witness ==
  \E t, u \in Threads :
    /\ pc[t] = "lg_lock"
    /\ loc[t].shown # None
    /\ pc[u] = "gm_read"
    /\ lock = u

\* the places of a thread that has passed the elapsed-time check and has not
\* finished its report
ReporterLabels ==
  {"pt_lock", "pt_read", "pt_print", "ef_mark", "lg_lock", "lg_read",
   "lg_write"}

\* C14: the elapsed-time check and the update of last_terminal_print are
\* atomic between two threads in end_frame(): two threads are never inside
\* the reporter at once, and two consecutive reports are at least
\* terminal_interval apart.
C14_ReportsSerialized ==
  /\ Cardinality({t \in Threads : pc[t] \in ReporterLabels}) <= 1
  /\ \A i \in 1..(Len(reportTimes) - 1) :
       reportTimes[i + 1] - reportTimes[i] >= TerminalInterval

\* C15: end_frame() never fails when a reset() runs beside it: inside the
\* locked section frame_start_time is still set, as the check at the top
\* found it, and no exception reaches the caller of end_frame().
C15_EndFrameNeverFails ==
  /\ \A t \in Threads : pc[t] = "ef_body" => frame_start_time # None
  /\ out.op = "end_frame" => ~out.raised

\* writes to the log file that have failed so far: the header and every
\* append were attempted once each, and each success left one line
IoFailures ==
  IF log_to_file THEN 1 + appendCount - Len(log_file.lines) ELSE 0

\* C16: the first failed write to the log file is reported by one warning,
\* and from then on no report attempts another write to the log file and no
\* further warning is printed.
C16_LogFailureReportedOnce ==
  [][/\ (IoFailures = 0 /\ IoFailures' > 0) => out'.warnings = 1
     /\ IoFailures > 0 => (appendCount' = appendCount /\ out'.warnings = 0)
    ]_vars

\* s is an initial part of t
IsPrefix(s, t) == Len(s) <= Len(t) /\ s = SubSeq(t, 1, Len(s))

\* a log file that has lines starts with the header and continues with
\* records
LogFileWellFormed ==
  (log_file.exists /\ log_file.lines # <<>>) =>
    /\ log_file.lines[1] = Header
    /\ \A i \in 2..Len(log_file.lines) : log_file.lines[i] = Record

\* C17: whenever the log file exists its first line is the header and every
\* later line is a record, and its content only grows: each later content has
\* the earlier content as a prefix, reset() included; also when the header
\* write fails and a later append succeeds.
C17_LogFileHeaderThenRecords ==
  /\ []LogFileWellFormed
  /\ [][/\ log_file.exists => log_file'.exists
        /\ IsPrefix(log_file.lines, log_file'.lines)]_vars

\* C18: an end_frame() with frame_start_time set reports exactly when
\* now - last_terminal_print >= terminal_interval; if it reports, the
\* last-report time becomes its completion instant, otherwise it is
\* unchanged.  start_frame(), get_metrics() and reset() leave the last-report
\* time alone.
C18_SoftGate ==
  [][/\ (enabled /\ out'.op = "end_frame" /\ frame_start_time # None) =>
          LET elapsed == (clock' - last_terminal_print) >= TerminalInterval
          IN /\ (out'.prints = 1) <=> elapsed
             /\ out'.prints \in {0, 1}
             /\ last_terminal_print' =
                  IF elapsed THEN clock' ELSE last_terminal_print
     /\ (enabled /\ out'.op \in {"start_frame", "get_metrics", "reset"}) =>
          last_terminal_print' = last_terminal_print
    ]_vars

\* after a pause longer than the interval the next effective end_frame() has
\* reported at once
C18_Witness ==
  /\ enabled
  /\ out.op = "end_frame"
  /\ out.prints = 1
  /\ Len(completions) >= 2
  /\ completions[Len(completions)] - completions[Len(completions) - 1]
       > TerminalInterval
  /\ reportTimes # <<>>
  /\ reportTimes[Len(reportTimes)] = clock
  /\ last_terminal_print = clock

\* two snapshots carry the same values, their timestamps aside
SameValues(m, n) ==
  /\ FracEq(m.fps, n.fps)
  /\ FracEq(m.avg_latency_ms, n.avg_latency_ms)
  /\ m.min_latency_ms = n.min_latency_ms
  /\ m.max_latency_ms = n.max_latency_ms
  /\ FracEq(m.memory_mb, n.memory_mb)

\* C19: the terminal report and the log record of one end_frame() carry the
\* values of one snapshot, also when another thread calls reset() or
\* end_frame() while the report is in progress.
C19_OneSnapshotForBothSinks ==
  \A t \in Threads :
    pc[t] = "lg_write" =>
      SameValues(ValueOf(loc[t].shown), ValueOf(loc[t].logged))

\* C20 as stated: last_frame_time is unset while fewer than two effective
\* end_frame() calls have completed since construction or the last reset, and
\* set from the second one on.
C20_UnsetUntilSecondFrame ==
  /\ Len(completions) < 2 => last_frame_time = None
  /\ Len(completions) >= 2 => last_frame_time # None

\* C20, amended: last_frame_time is unset exactly while no effective
\* end_frame() has completed since construction or the last reset; from the
\* first one on it is the completion instant of the latest.
C20_UnsetUntilFirstFrame ==
  /\ (last_frame_time = None) <=> (completions = <<>>)
  /\ completions # <<>> =>
       last_frame_time = Some(completions[Len(completions)])

\* one frame has completed and last_frame_time is already set, while no frame
\* interval has been recorded yet
C20_Witness ==
  /\ Len(completions) = 1
  /\ last_frame_time = Some(completions[1])
  /\ pushed.ft = <<>>
  /\ out.op = "end_frame"
====
